---- MODULE Spec2Model ----
(***************************************************************************)
(* Model of the dashboard page src/src/app/page.js: the month dataset      *)
(* cache and its fetch chain (fetchMonth, handleMonthChange, the month     *)
(* slider), and the colour scale functions (lerp, multiStopColor,          *)
(* getColor, bubbleColor).                                                 *)
(***************************************************************************)
EXTENDS Integers, Sequences, FiniteSets, TLC

\* ------------------------------------------------------------------ bounds
\* Calls of fetchMonth in one session (the mount effect's call included).
MaxRequests == 3
\* The slider positions the user visits: InitialMonth -/+ MonthSpan.
MonthSpan == 1
\* Distinct bodies the server may answer a month file with.
MaxRev == 2
\* Widest of the small colour domains [lo, lo + w] tried besides the fixed ones.
MaxSpan == 5
\* How far below min and above max the values given to the colour functions go.
ValueMargin == 2
\* Largest number of rows and of columns of the grids given to the cells loop.
MaxRows == 2
MaxCols == 2
\* Largest number of records of the city collections given to the range effect.
MaxCities == 2
\* Clicks, slider moves and pointer moves handled in one session of the view.
MaxEvents == 2
\* Distinct bodies the server may answer the cities file with.
MaxCityFiles == 2

\* ------------------------------------------------------- month dataset cache
\* useState(6): the month index the page starts on.
InitialMonth == 6

MONTH_KEYS ==
  <<"jan", "feb", "mar", "apr", "may", "jun",
    "jul", "aug", "sep", "oct", "nov", "dec">>

\* MONTH_KEYS[monthIdx] of the source (JavaScript indexes from 0).
KeyOf(monthIdx) == MONTH_KEYS[monthIdx + 1]

Keys == {MONTH_KEYS[i] : i \in 1..Len(MONTH_KEYS)}

\* The values the range input can take (min=0, max=11), cut to the span visited.
SliderValues ==
  {i \in 0..(Len(MONTH_KEYS) - 1) : i >= InitialMonth - MonthSpan /\ i <= InitialMonth + MonthSpan}

\* null / undefined where a dataset is expected (useState(null), a missing cache key).
NoData == [month |-> "none", rev |-> 0]

\* A parsed month file: the month key of the URL it was fetched from and which
\* of the server's bodies it is.
Dataset(key, rev) == [month |-> key, rev |-> rev]

Datasets == {Dataset(k, r) : k \in Keys, r \in 1..MaxRev}

\* A value that may be missing: <<>> is null or undefined, <<v>> the number v.
Null == <<>>
Some(v) == <<v>>

\* useState(null) for cities, and a parsed cities file.
NoCities == [loaded |-> FALSE, list |-> <<>>]
Loaded(list) == [loaded |-> TRUE, list |-> list]

\* useRef({ min: 0, max: 1 })
InitialRange == [min |-> 0, max |-> 1]

\* useState(null) for hoverInfo, and setHoverInfo(null)
NoHover ==
  [type |-> "none", temp |-> Null, precip |-> Null, sun |-> Null, lat |-> 0, lon |-> 0]

\* The legend block is not rendered: {cities && (...)}.
NoLegend == [shown |-> FALSE, metric |-> "none", min |-> 0, max |-> 0]

\* new MapboxOverlay({ interleaved: true, layers: [] })
NoHeatmap ==
  [shown |-> FALSE, variable |-> "none", vMin |-> 0, vMax |-> 0, cells |-> <<>>, data |-> NoData]
NoCityLayer == [shown |-> FALSE, metric |-> "none", bMin |-> 0, bMax |-> 0, invert |-> FALSE]
NoLayers == [heatmap |-> NoHeatmap, city |-> NoCityLayer]

VARIABLES
  mounted,      \* the mount effect (lines 334-340) has run
  month,        \* useState(6)
  climateData,  \* useState(null)
  loading,      \* useState(false)
  cache,        \* useRef({}): month key -> dataset
  pending,      \* the promise chains of fetchMonth that have not settled
  requested,    \* history: the keys fetchMonth was called with, in order
  fetched,      \* history: the keys a network fetch was issued for, in order
  writes,       \* history: the keys written to the cache, in order
  settled,      \* history: the outcome of each settled chain, in order
  colorIn,      \* the arguments of a call of getColor or bubbleColor
  colorOut,     \* what that call computed and returned
  callIn,       \* the arguments of a run of the cells loop or of the range effect
  callOut,      \* what that run produced
  variable,     \* useState("temperature")
  bubbleMetric, \* useState("resilience_score")
  cities,       \* useState(null)
  citiesChain,  \* the promise chain of fetch("/data/cities_all.json")
  bubbleRange,  \* useRef({ min: 0, max: 1 }): bubbleRange.current
  hoverInfo,    \* useState(null)
  legend,       \* the bubble legend as the last render drew it
  layers,       \* the layers last given to overlayRef.current.setProps
  crashed,      \* a render of Home threw
  events        \* history: how many clicks, slider moves and pointer moves were handled

dashVars ==
  <<mounted, month, climateData, loading, cache, pending,
    requested, fetched, writes, settled>>

colorVars == <<colorIn, colorOut>>

callVars == <<callIn, callOut>>

viewVars ==
  <<variable, bubbleMetric, cities, citiesChain, bubbleRange, hoverInfo,
    legend, layers, crashed, events>>

vars == <<dashVars, colorVars, callVars, viewVars>>

\* Nothing has been run.
NoArgs == [fn |-> "none"]
NoResult == [fn |-> "none"]

\* No colour function has been called.
NoCall == [fn |-> "none", color |-> <<>>, ratio |-> [kind |-> "nan", n |-> 0, d |-> 1], divisions |-> 0]

\* getColor(variable, d.value, vMin, vMax) on the page's first variable.
FirstCall ==
  [variable |-> "temperature", value |-> <<0>>, min |-> -15, max |-> 35, invert |-> TRUE]

DashInit ==
  /\ mounted = FALSE
  /\ month = InitialMonth
  /\ climateData = NoData
  /\ loading = FALSE
  /\ cache = [k \in Keys |-> NoData]
  /\ pending = {}
  /\ requested = <<>>
  /\ fetched = <<>>
  /\ writes = <<>>
  /\ settled = <<>>
  /\ variable = "temperature"
  /\ bubbleMetric = "resilience_score"
  /\ cities = NoCities
  /\ citiesChain = "idle"
  /\ bubbleRange = InitialRange
  /\ hoverInfo = NoHover
  /\ legend = NoLegend
  /\ layers = NoLayers
  /\ crashed = FALSE
  /\ events = 0

Init ==
  /\ DashInit
  /\ colorIn = FirstCall
  /\ colorOut = NoCall
  /\ callIn = NoArgs
  /\ callOut = NoResult

\* ------------------------------------------------------------ colour scales
\* JavaScript numbers the colour functions compute with: a finite value is the
\* exact fraction n/d (d > 0); a division by zero gives NaN or an infinity.
Num(n, d) == [kind |-> "num", n |-> n, d |-> d]
NaN == [kind |-> "nan", n |-> 0, d |-> 1]
PosInf == [kind |-> "inf", n |-> 1, d |-> 1]
NegInf == [kind |-> "inf", n |-> -1, d |-> 1]
Zero == Num(0, 1)
One == Num(1, 1)
\* the literal 0.5
Half == Num(1, 2)

\* a / b on two integers
JsDiv(a, b) ==
  IF b = 0 THEN (IF a = 0 THEN NaN ELSE IF a > 0 THEN PosInf ELSE NegInf)
  ELSE IF b > 0 THEN Num(a, b) ELSE Num(-a, -b)

\* x <= y: false when either side is NaN
JsLe(x, y) ==
  IF x.kind = "nan" \/ y.kind = "nan" THEN FALSE
  ELSE IF x.kind = "inf" THEN (x.n < 0 \/ (y.kind = "inf" /\ y.n > 0))
  ELSE IF y.kind = "inf" THEN y.n > 0
  ELSE x.n * y.d <= y.n * x.d

\* x >= y
JsGe(x, y) == JsLe(y, x)

\* Math.min(x, y): NaN when either argument is NaN
MathMin(x, y) ==
  IF x.kind = "nan" \/ y.kind = "nan" THEN NaN ELSE IF JsLe(x, y) THEN x ELSE y

\* Math.max(x, y)
MathMax(x, y) ==
  IF x.kind = "nan" \/ y.kind = "nan" THEN NaN ELSE IF JsLe(x, y) THEN y ELSE x

\* Variant of Clamp01: Math.min and Math.max exchanged.
Clamp01Swapped(x) == MathMin(Zero, MathMax(One, x))

\* Math.max(0, Math.min(1, x))
Clamp01(x) == MathMax(Zero, MathMin(One, x))

\* x - y and x / y on finite values (the interpolation parameter of multiStopColor)
RatSub(x, y) == Num(x.n * y.d - y.n * x.d, x.d * y.d)
RatDiv(x, y) ==
  IF y.n = 0 THEN (IF x.n = 0 THEN NaN ELSE IF x.n > 0 THEN PosInf ELSE NegInf)
  ELSE IF y.n > 0 THEN Num(x.n * y.d, x.d * y.n) ELSE Num(-(x.n * y.d), x.d * (-y.n))

\* Math.round(a + (b - a) * t) for integers a, b and finite t: halves round up.
\* Exact arithmetic stands for the doubles of the source: on a few exact halves
\* the double result is one unit away, still between a and b.
RoundMix(a, b, t) == (2 * (a * t.d + (b - a) * t.n) + t.d) \div (2 * t.d)

\* Variant of lerp: the difference b - a written as a sum.
lerpSum(a, b, t) ==
  <<RoundMix(a[1], b[1] + 2 * a[1], t), RoundMix(a[2], b[2] + 2 * a[2], t),
    RoundMix(a[3], b[3] + 2 * a[3], t)>>

lerp(a, b, t) ==
  <<RoundMix(a[1], b[1], t), RoundMix(a[2], b[2], t), RoundMix(a[3], b[3], t)>>

\* { at, color } with at in tenths
Stop(tenths, color) == [at |-> Num(tenths, 10), color |-> color]

multiStopColor(ratio, stops) ==
  IF JsLe(ratio, stops[1].at) THEN stops[1].color
  ELSE IF JsGe(ratio, stops[Len(stops)].at) THEN stops[Len(stops)].color
  ELSE LET found == {i \in 1..(Len(stops) - 1) : JsLe(ratio, stops[i + 1].at)}
       IN IF found = {} THEN stops[Len(stops)].color
          ELSE LET i == CHOOSE k \in found : \A m \in found : k <= m
                   t == RatDiv(RatSub(ratio, stops[i].at),
                               RatSub(stops[i + 1].at, stops[i].at))
               IN lerp(stops[i].color, stops[i + 1].color, t)

TEMP_STOPS ==
  <<Stop(0, <<33, 102, 172>>), Stop(5, <<255, 255, 255>>), Stop(10, <<178, 24, 43>>)>>
PRECIP_STOPS ==
  <<Stop(0, <<255, 255, 204>>), Stop(4, <<65, 182, 196>>), Stop(10, <<12, 44, 132>>)>>
SUN_STOPS ==
  <<Stop(0, <<74, 20, 134>>), Stop(2, <<43, 140, 190>>), Stop(4, <<166, 217, 237>>),
    Stop(6, <<254, 227, 145>>), Stop(8, <<244, 109, 67>>), Stop(10, <<255, 204, 0>>)>>
STOP_MAP ==
  [temperature |-> TEMP_STOPS, precipitation |-> PRECIP_STOPS, sunshine |-> SUN_STOPS]
GREEN_RED_STOPS ==
  <<Stop(0, <<34, 139, 34>>), Stop(5, <<255, 200, 0>>), Stop(10, <<200, 30, 30>>)>>

\* fixedMin and fixedMax of VARIABLES
VariableDefs ==
  [temperature |-> [fixedMin |-> -15, fixedMax |-> 35],
   precipitation |-> [fixedMin |-> 0, fixedMax |-> 200],
   sunshine |-> [fixedMin |-> 0, fixedMax |-> 14]]

\* Variant of NormRatio: the division without the range === 0 test.
NormRatioUnguarded(value, min, max) ==
  [ratio |-> Clamp01(JsDiv(value - min, max - min)), divisions |-> 1]

\* range === 0 ? 0.5 : Math.max(0, Math.min(1, (value - min) / range)),
\* with the number of divisions the branch taken performs.
NormRatio(value, min, max) ==
  LET range == max - min
  IN IF range = 0 THEN [ratio |-> Half, divisions |-> 0]
     ELSE [ratio |-> Clamp01(JsDiv(value - min, range)), divisions |-> 1]

\* getColor(variable, value, min, max); the first parameter is named key here,
\* variable being the name of Home's state.
getColor(key, value, min, max) ==
  LET ratio == NormRatio(value, min, max).ratio
      rgb == multiStopColor(ratio, STOP_MAP[key])
  IN <<rgb[1], rgb[2], rgb[3], 179>>

\* if (invert) ratio = 1 - ratio
Reflect(ratio, invert) ==
  IF ~invert \/ ratio.kind = "nan" THEN ratio
  ELSE IF ratio.kind = "inf" THEN (IF ratio.n > 0 THEN NegInf ELSE PosInf)
  ELSE RatSub(One, ratio)

\* The ratio bubbleColor looks up: the normalised ratio, reflected under invert.
BubbleRatio(v, min, max, invert) == Reflect(NormRatio(v, min, max).ratio, invert)

bubbleColor(value, min, max, invert) ==
  IF value = Null THEN <<160, 160, 160, 220>>
  ELSE LET rgb == multiStopColor(BubbleRatio(value[1], min, max, invert), GREEN_RED_STOPS)
       IN <<rgb[1], rgb[2], rgb[3], 220>>

\* ----------------------------------------------- calls of the colour functions
VariableNames == {"temperature", "precipitation", "sunshine"}

\* The [min, max] pairs tried: the fixed range of each variable and the small
\* ranges [lo, lo + w], w = 0 being the degenerate range.
Domains ==
  {<<VariableDefs[v].fixedMin, VariableDefs[v].fixedMax>> : v \in VariableNames}
    \cup {<<lo, lo + w>> : lo \in -1..1, w \in 0..MaxSpan}

\* The values tried on a domain: missing, and every integer from below min to above max.
ValuesOn(dom) ==
  {Null} \cup {Some(v) : v \in (dom[1] - ValueMargin)..(dom[2] + ValueMargin)}

ColorInputs ==
  UNION {{[variable |-> var, value |-> val, min |-> dom[1], max |-> dom[2], invert |-> inv] :
            var \in VariableNames, val \in ValuesOn(dom), inv \in BOOLEAN} : dom \in Domains}

ColorInit ==
  /\ DashInit
  /\ colorIn \in ColorInputs
  /\ colorOut = NoCall
  /\ callIn = NoArgs
  /\ callOut = NoResult

\* getFillColor: (d) => getColor(variable, d.value, vMin, vMax), d.value a number.
CallGetColor ==
  /\ colorOut.fn = "none"
  /\ colorIn.value # Null
  /\ colorOut' =
       [fn |-> "getColor",
        color |-> getColor(colorIn.variable, colorIn.value[1], colorIn.min, colorIn.max),
        ratio |-> NormRatio(colorIn.value[1], colorIn.min, colorIn.max).ratio,
        divisions |-> NormRatio(colorIn.value[1], colorIn.min, colorIn.max).divisions]
  /\ UNCHANGED <<dashVars, colorIn, callVars, viewVars>>

\* getFillColor: (d) => bubbleColor(metric.getValue(d), bMin, bMax, metric.invert)
CallBubbleColor ==
  /\ colorOut.fn = "none"
  /\ colorOut' =
       [fn |-> "bubbleColor",
        color |-> bubbleColor(colorIn.value, colorIn.min, colorIn.max, colorIn.invert),
        ratio |-> IF colorIn.value = Null THEN NaN
                  ELSE BubbleRatio(colorIn.value[1], colorIn.min, colorIn.max, colorIn.invert),
        divisions |-> IF colorIn.value = Null THEN 0
                      ELSE NormRatio(colorIn.value[1], colorIn.min, colorIn.max).divisions]
  /\ UNCHANGED <<dashVars, colorIn, callVars, viewVars>>

ColorNext == CallGetColor \/ CallBubbleColor

\* The colour functions applied to every input of ColorInputs.
ColorSpec == ColorInit /\ [][ColorNext]_vars

\* ------------------------------------------------------------ the cells loop
\* CELL_SIZE = 0.21 degrees, in thousandths of a degree.
CELL_SIZE == 210
HALF == CELL_SIZE \div 2

\* Variant of IsMissing: the test written as if (!val) continue.
IsMissingFalsy(val) == val = Null \/ val = Some(0)

\* val === null || val === undefined
IsMissing(val) == val = Null

\* The object pushed for grid position (i, j), indices from 0 as in the source.
Cell(lats, lons, i, j, val) ==
  [polygon |-> <<<<lons[j + 1] - HALF, lats[i + 1] - HALF>>,
                 <<lons[j + 1] + HALF, lats[i + 1] - HALF>>,
                 <<lons[j + 1] + HALF, lats[i + 1] + HALF>>,
                 <<lons[j + 1] - HALF, lats[i + 1] + HALF>>>>,
   value |-> val[1], i |-> i, j |-> j]

\* for (i ...) for (j ...) { val = grid[i][j]; if missing continue; cells.push(...) }
RECURSIVE CellsLoop(_, _, _, _, _, _)
CellsLoop(lats, lons, grid, i, j, cells) ==
  IF i >= Len(lats) THEN cells
  ELSE IF j >= Len(lons) THEN CellsLoop(lats, lons, grid, i + 1, 0, cells)
  ELSE LET val == grid[i + 1][j + 1]
       IN IF IsMissing(val) THEN CellsLoop(lats, lons, grid, i, j + 1, cells)
          ELSE CellsLoop(lats, lons, grid, i, j + 1,
                         Append(cells, Cell(lats, lons, i, j, val)))

\* const cells = []; the two loops.
BuildCells(lats, lons, grid) == CellsLoop(lats, lons, grid, 0, 0, <<>>)

\* Grid coordinates 0.25 degrees apart, in thousandths of a degree.
Coords(first, n) == [k \in 1..n |-> first + 250 * (k - 1)]

\* What a grid position may hold in a month file: null or a number.
CellValues == {Null, Some(0), Some(5)}

\* The grids of r rows and c columns given to the cells loop: every filling.
CellInputs(r, c) ==
  {[fn |-> "cells", lats |-> Coords(50000, r), lons |-> Coords(10000, c), grid |-> g] :
     g \in [1..r -> [1..c -> CellValues]]}

CellInit ==
  /\ DashInit
  /\ colorIn = FirstCall
  /\ colorOut = NoCall
  /\ \E r \in 0..MaxRows, c \in 0..MaxCols : callIn \in CellInputs(r, c)
  /\ callOut = NoResult

\* The layer effect's loop run on the grid of the selected variable.
RunCellsLoop ==
  /\ callOut.fn = "none"
  /\ callOut' = [fn |-> "cells", cells |-> BuildCells(callIn.lats, callIn.lons, callIn.grid)]
  /\ UNCHANGED <<dashVars, colorVars, callIn, viewVars>>

CellNext == RunCellsLoop

\* The cells loop applied to every grid of up to MaxRows x MaxCols positions.
CellSpec == CellInit /\ [][CellNext]_vars

\* ---------------------------------------------------------- the range effect
\* The keys of BUBBLE_METRICS; each metric reads the city field of its own name.
MetricNames ==
  {"resilience_score", "cost-of-living-index", "one-bedroom-city-rent",
   "delta_temp_c", "delta_precip_pct"}

\* BUBBLE_METRICS[metric].invert
MetricInvert(metric) == metric = "resilience_score"

\* Math.abs
Abs(x) == IF x < 0 THEN -x ELSE x

\* BUBBLE_METRICS[metric].getValue(d)
GetValue(metric, d) ==
  IF metric = "delta_precip_pct"
  THEN (IF d["delta_precip_pct"] # Null THEN Some(Abs(d["delta_precip_pct"][1])) ELSE Null)
  ELSE d[metric]

\* A city record, by the fields the bubble metrics read.
City(score, cost, rent, temp, precip) ==
  [f \in MetricNames |->
     CASE f = "resilience_score" -> score
       [] f = "cost-of-living-index" -> cost
       [] f = "one-bedroom-city-rent" -> rent
       [] f = "delta_temp_c" -> temp
       [] f = "delta_precip_pct" -> precip]

\* Math.min(...vals) and Math.max(...vals) on a non-empty array of numbers.
RECURSIVE MinOf(_)
MinOf(vals) ==
  IF Len(vals) = 1 THEN vals[1]
  ELSE LET m == MinOf(Tail(vals)) IN IF vals[1] <= m THEN vals[1] ELSE m

RECURSIVE MaxOf(_)
MaxOf(vals) ==
  IF Len(vals) = 1 THEN vals[1]
  ELSE LET m == MaxOf(Tail(vals)) IN IF vals[1] >= m THEN vals[1] ELSE m

\* Variant of MetricVals: the map without the filter; Math.min and Math.max
\* read a null as 0.
MetricValsUnfiltered(list, metric) ==
  [k \in 1..Len(list) |->
     IF GetValue(metric, list[k]) = Null THEN 0 ELSE GetValue(metric, list[k])[1]]

\* cities.map(metric.getValue).filter((v) => v != null)
MetricVals(list, metric) ==
  LET mapped == [k \in 1..Len(list) |-> GetValue(metric, list[k])]
      IsPresent(v) == v # Null
      kept == SelectSeq(mapped, IsPresent)
  IN [k \in 1..Len(kept) |-> kept[k][1]]

\* The body of the range effect: the value of bubbleRange.current it leaves.
RangeEffect(ref, cs, metric) ==
  IF ~cs.loaded THEN ref
  ELSE LET vals == MetricVals(cs.list, metric)
       IN IF Len(vals) > 0 THEN [min |-> MinOf(vals), max |-> MaxOf(vals)] ELSE ref

\* The values a city field may hold after NaN was rewritten to null.
FieldValues == {Null, Some(0), Some(2)}
SignedValues == {Null, Some(-3), Some(2)}

\* City records: every choice of score, cost and precipitation change.
CityRecords ==
  {City(a, b, a, b, p) : a \in FieldValues, b \in FieldValues, p \in SignedValues}

\* The collections of n records given to the range effect, under every metric.
RangeInputs(n) ==
  {[fn |-> "range", cities |-> Loaded(l), metric |-> m] :
     l \in [1..n -> CityRecords], m \in MetricNames}

RangeInit ==
  /\ DashInit
  /\ colorIn = FirstCall
  /\ colorOut = NoCall
  /\ \/ \E m \in MetricNames : callIn = [fn |-> "range", cities |-> NoCities, metric |-> m]
     \/ \E n \in 0..MaxCities : callIn \in RangeInputs(n)
  /\ callOut = NoResult

\* The range effect run on its first range, { min: 0, max: 1 }.
RunRangeEffect ==
  /\ callOut.fn = "none"
  /\ callOut' = [fn |-> "range", range |-> RangeEffect(InitialRange, callIn.cities, callIn.metric)]
  /\ UNCHANGED <<dashVars, colorVars, callIn, viewVars>>

RangeNext == RunRangeEffect

\* The range effect applied to no collection and to every list of up to
\* MaxCities records.
RangeSpec == RangeInit /\ [][RangeNext]_vars

\* ------------------------------------------------------ render and effects
\* The parsed body of a month file: lats, lons and the three grids. Body 1 has
\* its missing value at the same position in every grid, body 2 has positions
\* present in one grid and missing in another, the others miss nothing.
FileBody(rev) ==
  [lats |-> Coords(50000, 2), lons |-> Coords(10000, 2),
   temperature |->
     IF rev = 1 THEN <<<<Some(5), Null>>, <<Some(10), Some(15)>>>>
     ELSE <<<<Some(5), Some(7)>>, <<Some(10), Some(15)>>>>,
   precipitation |->
     IF rev = 1 \/ rev = 2 THEN <<<<Some(40), Null>>, <<Some(60), Some(80)>>>>
     ELSE <<<<Some(40), Some(50)>>, <<Some(60), Some(80)>>>>,
   sunshine |->
     IF rev = 1 THEN <<<<Some(3), Null>>, <<Some(4), Some(6)>>>>
     ELSE IF rev = 2 THEN <<<<Some(3), Some(4)>>, <<Null, Some(6)>>>>
     ELSE <<<<Some(3), Some(4)>>, <<Some(5), Some(6)>>>>]

\* The parsed body of the cities file: two cities with every field but one,
\* a city without cost and temperature fields, an empty array.
CityFile(n) ==
  IF n = 1 THEN <<City(Some(40), Some(70), Some(900), Some(2), Some(-12)),
                  City(Some(60), Some(90), Null, Some(3), Some(5))>>
  ELSE IF n = 2 THEN <<City(Some(50), Null, Some(700), Null, Some(-4))>>
  ELSE <<>>

\* (v).toFixed(1) of an integer v, as the number of tenths the text shows.
ToFixed1(v) == 10 * v

\* The render of the grid tooltip calls .toFixed(1) on temp, precip and sun:
\* a TypeError when one of them is null.
TooltipThrows(h) ==
  h.type = "grid" /\ (h.temp = Null \/ h.precip = Null \/ h.sun = Null)

\* const { min: bMin, max: bMax } = bubbleRange.current; ... {cities && (legend)}
RenderLegend(cs, metric, ref) ==
  IF cs.loaded
  THEN [shown |-> TRUE, metric |-> metric, min |-> ToFixed1(ref.min), max |-> ToFixed1(ref.max)]
  ELSE NoLegend

\* The layer effect: the layers it gives to setProps, or the layers left in
\* place when it returns early.
LayerEffect(old, overlay, data, var, cs, metric, ref) ==
  IF data = NoData \/ ~overlay THEN old
  ELSE [heatmap |->
          [shown |-> TRUE, variable |-> var,
           vMin |-> VariableDefs[var].fixedMin, vMax |-> VariableDefs[var].fixedMax,
           cells |-> BuildCells(FileBody(data.rev).lats, FileBody(data.rev).lons,
                                FileBody(data.rev)[var]),
           data |-> data],
        city |->
          IF cs.loaded
          THEN [shown |-> TRUE, metric |-> metric, bMin |-> ref.min, bMax |-> ref.max,
                invert |-> MetricInvert(metric)]
          ELSE NoCityLayer]

\* Variant of RangeSeenByLayer: the layer effect declared above the range effect.
RangeSeenByLayerStale(before, after) == before

\* Effects run in the order they are declared: the layer effect reads
\* bubbleRange.current as the range effect of the same commit left it.
RangeSeenByLayer(before, after) == after

\* React renders Home with the new state and then runs the effects whose
\* dependencies changed; after a render threw, nothing renders any more.
Commit ==
  LET rangeRuns == cities' # cities \/ bubbleMetric' # bubbleMetric
      layerRuns == rangeRuns \/ climateData' # climateData \/ variable' # variable
      after == IF rangeRuns THEN RangeEffect(bubbleRange, cities', bubbleMetric')
               ELSE bubbleRange
  IN IF crashed THEN UNCHANGED <<crashed, legend, bubbleRange, layers>>
     ELSE IF TooltipThrows(hoverInfo')
     THEN crashed' = TRUE /\ UNCHANGED <<legend, bubbleRange, layers>>
     ELSE /\ crashed' = FALSE
          /\ legend' = RenderLegend(cities', bubbleMetric', bubbleRange)
          /\ bubbleRange' = after
          /\ layers' =
               IF layerRuns
               THEN LayerEffect(layers, mounted', climateData', variable', cities',
                                bubbleMetric', RangeSeenByLayer(bubbleRange, after))
               ELSE layers

\* ------------------------------------------------- the month dataset cache
\* Variant of CacheHit: the cache is never consulted.
CacheHitNever(key) == FALSE

\* if (cache.current[key])
CacheHit(key) == cache[key] # NoData

\* Variant of FetchMonthHit: setLoading(true) moved above the cache check.
FetchMonthHitSpinner(key) ==
  /\ climateData' = cache[key]
  /\ loading' = TRUE
  /\ UNCHANGED <<pending, fetched>>

\* Variant of FetchMonthHit: the early return without setClimateData.
FetchMonthHitStale(key) ==
  /\ UNCHANGED <<climateData, loading, pending, fetched>>

\* The cache-hit branch of fetchMonth: setClimateData(cache.current[key]); return.
FetchMonthHit(key) ==
  /\ climateData' = cache[key]
  /\ UNCHANGED <<loading, pending, fetched>>

\* The promise chain fetchMonth starts: fetch(url).then(json).then(store).finally(clear).
\* prevData and prevCache record the display and the cache at the call.
NewChain(key) ==
  [id |-> Len(fetched) + 1, key |-> key, stage |-> "fetching", data |-> NoData,
   prevData |-> climateData, prevCache |-> cache]

\* Variant of FetchMonthMiss: the display is cleared while the month loads.
FetchMonthMissClearing(key) ==
  /\ loading' = TRUE
  /\ climateData' = NoData
  /\ pending' = pending \cup {NewChain(key)}
  /\ fetched' = Append(fetched, key)

\* The cache-miss branch of fetchMonth: setLoading(true); fetch(...).
FetchMonthMiss(key) ==
  /\ loading' = TRUE
  /\ pending' = pending \cup {NewChain(key)}
  /\ fetched' = Append(fetched, key)
  /\ UNCHANGED climateData

fetchMonth(monthIdx) ==
  LET key == KeyOf(monthIdx) IN
  /\ requested' = Append(requested, key)
  /\ IF CacheHit(key) THEN FetchMonthHit(key) ELSE FetchMonthMiss(key)
  /\ UNCHANGED <<cache, writes, settled>>

\* useEffect(() => { fetchMonth(month); fetch("/data/cities_all.json")... }, []):
\* runs once after the first render.
Mount ==
  /\ ~mounted
  /\ mounted' = TRUE
  /\ fetchMonth(month)
  /\ citiesChain' = "fetching"
  /\ UNCHANGED <<month, colorVars, callVars, variable, bubbleMetric, cities, hoverInfo, events>>
  /\ Commit

\* Variant of SliderEnabled: the input without its disabled attribute.
SliderAlwaysEnabled == TRUE

\* <input type="range" ... disabled={loading}>
SliderEnabled == ~loading

\* onChange of the month slider: a change event carries a value other than the current one.
handleMonthChange(idx) ==
  /\ mounted
  /\ ~crashed
  /\ SliderEnabled
  /\ idx # month
  /\ Len(requested) < MaxRequests
  /\ month' = idx
  /\ fetchMonth(idx)
  /\ events' = events + 1
  /\ UNCHANGED <<mounted, colorVars, callVars, variable, bubbleMetric, cities, citiesChain,
                  hoverInfo>>
  /\ Commit

\* chain f moved to stage s carrying data d
Advance(f, s, d) == (pending \ {f}) \cup {[f EXCEPT !.stage = s, !.data = d]}

\* fetch(url) resolves with a response.
FetchResolves(f) ==
  /\ f.stage = "fetching"
  /\ pending' = Advance(f, "parsing", NoData)
  /\ UNCHANGED <<mounted, month, climateData, loading, cache, requested, fetched, writes, settled, colorVars, callVars, viewVars>>

\* fetch(url) rejects (network failure): both .then callbacks are skipped.
FetchRejects(f) ==
  /\ f.stage = "fetching"
  /\ pending' = Advance(f, "netFailed", NoData)
  /\ UNCHANGED <<mounted, month, climateData, loading, cache, requested, fetched, writes, settled, colorVars, callVars, viewVars>>

\* res.json() resolves with the parsed body of the file of f.key.
JsonResolves(f, rev) ==
  /\ f.stage = "parsing"
  /\ pending' = Advance(f, "parsed", Dataset(f.key, rev))
  /\ UNCHANGED <<mounted, month, climateData, loading, cache, requested, fetched, writes, settled, colorVars, callVars, viewVars>>

\* res.json() rejects (the body is not JSON): the storing callback is skipped.
JsonRejects(f) ==
  /\ f.stage = "parsing"
  /\ pending' = Advance(f, "parseFailed", NoData)
  /\ UNCHANGED <<mounted, month, climateData, loading, cache, requested, fetched, writes, settled, colorVars, callVars, viewVars>>

\* Variant of CacheWrite: the cache keeps the latest month only.
CacheWriteEvict(c, key, data) == [k \in Keys |-> IF k = key THEN data ELSE NoData]

\* cache.current[key] = data
CacheWrite(c, key, data) == [c EXCEPT ![key] = data]

\* .then((data) => { cache.current[key] = data; setClimateData(data); })
ThenStore(f) ==
  /\ f.stage = "parsed"
  /\ cache' = CacheWrite(cache, f.key, f.data)
  /\ climateData' = f.data
  /\ writes' = Append(writes, f.key)
  /\ pending' = Advance(f, "stored", f.data)
  /\ UNCHANGED <<mounted, month, loading, requested, fetched, settled, colorVars, callVars,
                  variable, bubbleMetric, cities, citiesChain, hoverInfo, events>>
  /\ Commit

Outcome(stage) ==
  CASE stage = "stored" -> "ok"
    [] stage = "netFailed" -> "networkError"
    [] stage = "parseFailed" -> "parseError"

\* Variant of LoadingAfter: setLoading(false) in the storing callback, not in .finally.
LoadingAfterStoreOnly(stage) == stage # "stored"

\* The loading flag the .finally callback leaves: setLoading(false), whatever the stage.
LoadingAfter(stage) == FALSE

\* .finally(() => setLoading(false)): runs on fulfilment and on rejection.
Finally(f) ==
  /\ f.stage \in {"stored", "netFailed", "parseFailed"}
  /\ loading' = LoadingAfter(f.stage)
  /\ pending' = pending \ {f}
  /\ settled' = Append(settled, [key |-> f.key, outcome |-> Outcome(f.stage)])
  /\ UNCHANGED <<mounted, month, climateData, cache, requested, fetched, writes, colorVars,
                  callVars, variable, bubbleMetric, cities, citiesChain, hoverInfo, events>>
  /\ Commit

\* One step of some promise chain.
ChainStep ==
  \E f \in pending :
    \/ FetchResolves(f)
    \/ FetchRejects(f)
    \/ \E rev \in 1..MaxRev : JsonResolves(f, rev)
    \/ JsonRejects(f)
    \/ ThenStore(f)
    \/ Finally(f)

\* The month slider alone: the cities file is still on its way and the
\* variable buttons, the metric select and the pointer are left untouched.
Next ==
  \/ Mount
  \/ \E idx \in SliderValues : handleMonthChange(idx)
  \/ \E f \in pending : FetchResolves(f)
  \/ \E f \in pending : FetchRejects(f)
  \/ \E f \in pending, rev \in 1..MaxRev : JsonResolves(f, rev)
  \/ \E f \in pending : JsonRejects(f)
  \/ \E f \in pending : ThenStore(f)
  \/ \E f \in pending : Finally(f)

Spec == Init /\ [][Next]_vars

\* Every promise chain keeps moving: the network answers and microtasks run.
FairSpec == Spec /\ WF_vars(ChainStep)

\* ---------------------------------------------------------- the view's events
\* What only the month cache changes.
cacheVars == <<month, climateData, loading, cache, pending, requested, fetched, writes, settled>>

\* .then(setCities) after res.text() and JSON.parse(txt.replace(/NaN/g, "null")).
CitiesArrive(list) ==
  /\ citiesChain = "fetching"
  /\ citiesChain' = "done"
  /\ cities' = Loaded(list)
  /\ UNCHANGED <<mounted, cacheVars, colorVars, callVars, variable, bubbleMetric, hoverInfo, events>>
  /\ Commit

\* The cities fetch or its parsing rejects: no callback runs.
CitiesFail ==
  /\ citiesChain = "fetching"
  /\ citiesChain' = "failed"
  /\ UNCHANGED <<mounted, cacheVars, colorVars, callVars, variable, bubbleMetric, cities,
                  bubbleRange, hoverInfo, legend, layers, crashed, events>>

\* onClick={() => setVariable(key)} on another variable's button
SetVariable(v) ==
  /\ mounted /\ ~crashed
  /\ events < MaxEvents
  /\ v # variable
  /\ variable' = v
  /\ events' = events + 1
  /\ UNCHANGED <<mounted, cacheVars, colorVars, callVars, bubbleMetric, cities, citiesChain, hoverInfo>>
  /\ Commit

\* onChange={(e) => setBubbleMetric(e.target.value)} on another option
SetBubbleMetric(m) ==
  /\ mounted /\ ~crashed
  /\ events < MaxEvents
  /\ m # bubbleMetric
  /\ bubbleMetric' = m
  /\ events' = events + 1
  /\ UNCHANGED <<mounted, cacheVars, colorVars, callVars, variable, cities, citiesChain, hoverInfo>>
  /\ Commit

\* heatmapLayer.onHover with info.object the k-th cell of the layer: the
\* handler reads the three grids of the dataset the layer was built from.
HoverCell(k) ==
  /\ mounted /\ ~crashed
  /\ events < MaxEvents
  /\ k \in 1..Len(layers.heatmap.cells)
  /\ LET cell == layers.heatmap.cells[k]
         body == FileBody(layers.heatmap.data.rev)
     IN hoverInfo' =
          [type |-> "grid",
           temp |-> body.temperature[cell.i + 1][cell.j + 1],
           precip |-> body.precipitation[cell.i + 1][cell.j + 1],
           sun |-> body.sunshine[cell.i + 1][cell.j + 1],
           lat |-> body.lats[cell.i + 1], lon |-> body.lons[cell.j + 1]]
  /\ hoverInfo' # hoverInfo
  /\ events' = events + 1
  /\ UNCHANGED <<mounted, cacheVars, colorVars, callVars, variable, bubbleMetric, cities, citiesChain>>
  /\ Commit

\* heatmapLayer.onHover with no object under the pointer: setHoverInfo(null)
HoverLeave ==
  /\ mounted /\ ~crashed
  /\ events < MaxEvents
  /\ layers.heatmap.shown
  /\ hoverInfo # NoHover
  /\ hoverInfo' = NoHover
  /\ events' = events + 1
  /\ UNCHANGED <<mounted, cacheVars, colorVars, callVars, variable, bubbleMetric, cities, citiesChain>>
  /\ Commit

\* The whole page: the mount effect's two fetches, the month slider, the
\* variable buttons, the metric select and the pointer over the grid.
ViewNext ==
  \/ Mount
  \/ \E idx \in SliderValues : events < MaxEvents /\ handleMonthChange(idx)
  \/ \E f \in pending : FetchResolves(f)
  \/ \E f \in pending : FetchRejects(f)
  \/ \E f \in pending, rev \in 1..MaxRev : JsonResolves(f, rev)
  \/ \E f \in pending : JsonRejects(f)
  \/ \E f \in pending : ThenStore(f)
  \/ \E f \in pending : Finally(f)
  \/ \E n \in 1..MaxCityFiles : CitiesArrive(CityFile(n))
  \/ CitiesFail
  \/ \E v \in VariableNames : SetVariable(v)
  \/ \E m \in MetricNames : SetBubbleMetric(m)
  \/ \E k \in 1..Len(layers.heatmap.cells) : HoverCell(k)
  \/ HoverLeave

ViewSpec == Init /\ [][ViewNext]_vars

\* ------------------------------------------------- claims: the dataset cache
\* How often key k occurs in the history sequence.
Count(seq, k) == Cardinality({i \in 1..Len(seq) : seq[i] = k})

Last(seq) == seq[Len(seq)]

\* Key k has a cache entry.
Cached(k) == cache[k] # NoData

\* The fetches of key k that settled in failure.
Failures(k) ==
  Cardinality({i \in 1..Len(settled) : settled[i].key = k /\ settled[i].outcome # "ok"})

\* The step is a call of fetchMonth.
IsRequest == Len(requested') = Len(requested) + 1

\* C1 as stated: every requested month key is fetched exactly once in the
\* session, also when fetches fail; a key fetched once is never fetched again.
C1_OneFetchPerKey ==
  \A k \in Keys :
    /\ Count(fetched, k) <= 1
    /\ (Count(requested, k) >= 1 => Count(fetched, k) = 1)

\* C1 amended: a fetch is issued only for a key without a cache entry; a key
\* whose fetch succeeded is never fetched again, a key whose fetch failed is
\* fetched again at its next request, so that a key is fetched at most once
\* plus once per failed fetch of it, and every requested key at least once.
C1_FetchOnlyUncached ==
  /\ [][\A k \in Keys : Cached(k) => Count(fetched', k) = Count(fetched, k)]_vars
  /\ [][(IsRequest /\ ~Cached(Last(requested')))
          => fetched' = Append(fetched, Last(requested'))]_vars
  /\ [](\A k \in Keys :
          /\ Count(fetched, k) <= 1 + Failures(k)
          /\ (Count(requested, k) >= 1 => Count(fetched, k) >= 1)
          /\ Count(writes, k) <= 1)

\* A cached key was requested again and still has its single fetch.
C1_Witness ==
  \E k \in Keys : Cached(k) /\ Count(requested, k) >= 2 /\ Count(fetched, k) = 1

\* C2: a call of fetchMonth for a key whose fetch completed successfully sets
\* climateData to the cached dataset in that same step, leaves the loading
\* flag false and starts no fetch.
C2_CacheHitIsSynchronous ==
  [][(IsRequest /\ Cached(Last(requested')))
       => /\ climateData' = cache[Last(requested')]
          /\ loading' = loading
          /\ ~loading'
          /\ pending' = pending
          /\ fetched' = fetched]_vars

\* A request has hit the cache: more calls than fetches, the cached dataset shown.
C2_Witness ==
  /\ Len(requested) > Len(fetched)
  /\ Count(requested, Last(requested)) >= 2
  /\ climateData = cache[Last(requested)]
  /\ climateData # NoData
  /\ ~loading

\* C3: starting a fetch sets loading; the settling of a chain clears it, on
\* success, on network failure and on parse failure alike; with chains that
\* keep moving, loading is always eventually false again.
C3_LoadingClears ==
  /\ [][Len(fetched') > Len(fetched) => loading']_vars
  /\ [][Len(settled') > Len(settled) => ~loading']_vars
  /\ (loading ~> ~loading)

\* All three outcomes have settled and loading is false.
C3_Witness ==
  /\ ~loading
  /\ {settled[i].outcome : i \in 1..Len(settled)} = {"ok", "networkError", "parseError"}

\* C4: a failed fetch leaves climateData and the cache as they were when the
\* request was made, and adds no entry for the failed key.
C4_FailureKeepsState ==
  /\ [](\A f \in pending :
          f.stage \in {"fetching", "parsing", "netFailed", "parseFailed"}
            => climateData = f.prevData /\ cache = f.prevCache)
  /\ [][\A f \in pending :
          (f \notin pending' /\ f.stage \in {"netFailed", "parseFailed"})
            => /\ climateData' = f.prevData
               /\ cache' = f.prevCache
               /\ cache'[f.key] = NoData]_vars

\* A month change failed: the display still shows the month loaded before it.
C4_Witness ==
  /\ pending = {}
  /\ Len(settled) >= 2
  /\ Last(settled).outcome # "ok"
  /\ Last(settled).key = KeyOf(month)
  /\ climateData # NoData
  /\ climateData.month # KeyOf(month)
  /\ ~Cached(KeyOf(month))

\* C5: at most one month fetch is in flight, and while one is the loading
\* flag that disables the slider is set.
C5_OneFetchInFlight ==
  /\ Cardinality(pending) <= 1
  /\ (pending # {} => loading)
  /\ Len(fetched) = Len(settled) + Cardinality(pending)

\* The fetch of a month change is in flight.
C5_Witness ==
  /\ Cardinality(pending) = 1
  /\ loading
  /\ Len(requested) >= 2

\* C6: the cache is append-only: an entry is never removed nor replaced, a
\* key is written at most once, and the entry of key K is the dataset
\* fetched for K.
C6_CacheAppendOnly ==
  /\ [][\A k \in Keys : Cached(k) => cache'[k] = cache[k]]_vars
  /\ [](\A k \in Keys :
          /\ Count(writes, k) <= 1
          /\ (Cached(k) <=> Count(writes, k) = 1)
          /\ (Cached(k) => cache[k] \in Datasets /\ cache[k].month = k))

\* Two months are cached and one of them was requested again.
C6_Witness ==
  /\ Cardinality({k \in Keys : Cached(k)}) >= 2
  /\ Len(writes) = 2
  /\ Len(requested) > Len(fetched)

\* C7 as stated: after several month changes, once every fetch has settled,
\* climateData is the dataset of the month the month index names.
C7_LastRequestWins ==
  (mounted /\ pending = {} /\ Len(requested) >= 2)
    => climateData # NoData /\ climateData.month = KeyOf(month)

\* The dataset of the latest request that succeeded (none: NoData).
LastSucceeded ==
  LET ok == {i \in 1..Len(requested) : Cached(requested[i])}
  IN IF ok = {} THEN NoData
     ELSE cache[requested[CHOOSE i \in ok : \A j \in ok : j <= i]]

\* C7 amended: once every fetch has settled, climateData is the dataset of
\* the latest requested month whose request succeeded; that is the month the
\* month index names whenever that month has a cache entry.
C7_LastSuccessfulRequestWins ==
  (mounted /\ pending = {})
    => /\ Last(requested) = KeyOf(month)
       /\ climateData = LastSucceeded
       /\ (Cached(KeyOf(month)) => climateData = cache[KeyOf(month)])

\* After three requests the display shows the month the index names.
C7_Witness ==
  /\ mounted /\ pending = {}
  /\ Len(requested) >= 3
  /\ Cardinality({requested[i] : i \in 1..Len(requested)}) >= 2
  /\ climateData # NoData
  /\ climateData.month = KeyOf(month)

\* ------------------------------------------------- claims: the colour scales
\* The stop table the call looked its ratio up in.
StopsUsed == IF colorOut.fn = "getColor" THEN STOP_MAP[colorIn.variable] ELSE GREEN_RED_STOPS

\* The RGB part of the colour returned.
Rgb == <<colorOut.color[1], colorOut.color[2], colorOut.color[3]>>

\* x lies between a and b, whichever of the two is larger.
Between(a, x, b) == (a <= x /\ x <= b) \/ (b <= x /\ x <= a)

\* C8: for min < max, getColor returns the first stop's colour when
\* value <= min and the last stop's colour when value >= max.
C8_Saturates ==
  (colorOut.fn = "getColor" /\ colorIn.min < colorIn.max)
    => LET stops == STOP_MAP[colorIn.variable]
           v == colorIn.value[1]
       IN /\ (v <= colorIn.min => Rgb = stops[1].color)
          /\ (v >= colorIn.max => Rgb = stops[Len(stops)].color)
          /\ colorOut.color[4] = 179

\* getColor was given a value above max and returned the last stop's colour.
C8_Witness ==
  /\ colorOut.fn = "getColor"
  /\ colorIn.min < colorIn.max
  /\ colorIn.value[1] > colorIn.max
  /\ Rgb = STOP_MAP[colorIn.variable][Len(STOP_MAP[colorIn.variable])].color
  /\ Rgb # STOP_MAP[colorIn.variable][1].color

\* The ratio the call looked up is the normalised position of the value in
\* [min, max] (0.5 on a degenerate range), reflected when bubbleColor inverts.
RatioIsNormalised ==
  LET v == colorIn.value[1]
      range == colorIn.max - colorIn.min
      r == colorOut.ratio
      reflected == colorOut.fn = "bubbleColor" /\ colorIn.invert
  IN /\ r.kind = "num"
     /\ IF range = 0 THEN 2 * r.n = r.d
        ELSE IF reflected THEN r.n * range = (colorIn.max - v) * r.d
        ELSE r.n * range = (v - colorIn.min) * r.d

\* C9: for min <= value <= max the colour of getColor, and of bubbleColor on
\* a present value, lies channel by channel between two adjacent stops whose
\* positions bracket the ratio looked up.
C9_BetweenAdjacentStops ==
  (colorOut.fn # "none" /\ colorIn.value # Null
     /\ colorIn.min <= colorIn.value[1] /\ colorIn.value[1] <= colorIn.max)
    => /\ RatioIsNormalised
       /\ \E i \in 1..(Len(StopsUsed) - 1) :
            /\ JsLe(StopsUsed[i].at, colorOut.ratio)
            /\ JsLe(colorOut.ratio, StopsUsed[i + 1].at)
            /\ \A c \in 1..3 :
                 Between(StopsUsed[i].color[c], Rgb[c], StopsUsed[i + 1].color[c])

\* A value strictly inside the domain got a colour that is no stop's colour.
C9_Witness ==
  /\ colorOut.fn # "none" /\ colorIn.value # Null
  /\ colorIn.min < colorIn.value[1] /\ colorIn.value[1] < colorIn.max
  /\ \A i \in 1..Len(StopsUsed) : Rgb # StopsUsed[i].color

\* The colour of each stop table at position 0.5.
MidpointColor ==
  IF colorOut.fn = "bubbleColor" THEN <<255, 200, 0, 220>>
  ELSE IF colorIn.variable = "temperature" THEN <<255, 255, 255, 179>>
  ELSE IF colorIn.variable = "precipitation" THEN <<56, 159, 185, 179>>
  ELSE <<210, 222, 191, 179>>

\* C10: on a degenerate domain (min = max) getColor and bubbleColor divide
\* nothing, look up ratio 0.5 for every value, inverted or not, and return the
\* stop table's colour at 0.5.
C10_DegenerateDomain ==
  (colorOut.fn # "none" /\ colorIn.value # Null /\ colorIn.min = colorIn.max)
    => /\ colorOut.divisions = 0
       /\ colorOut.ratio.kind = "num"
       /\ 2 * colorOut.ratio.n = colorOut.ratio.d
       /\ colorOut.color = MidpointColor

\* bubbleColor inverted a value off a degenerate domain and returned the midpoint.
C10_Witness ==
  /\ colorOut.fn = "bubbleColor"
  /\ colorIn.invert
  /\ colorIn.value # Null
  /\ colorIn.min = colorIn.max
  /\ colorIn.value[1] # colorIn.min
  /\ colorOut.color = <<255, 200, 0, 220>>

\* --------------------------------------------------- claims: the cells loop
\* Grid positions (i, j), from 0, whose value is present.
PresentPositions ==
  {p \in (0..(Len(callIn.lats) - 1)) \X (0..(Len(callIn.lons) - 1)) :
     callIn.grid[p[1] + 1][p[2] + 1] # Null}

\* C11: the cells loop emits exactly one cell for every present grid position
\* and none for a missing one, in row-major order, each cell with its own
\* value and indices; there are at most lats.length * lons.length cells.
C11_OneCellPerPresentValue ==
  callOut.fn = "cells"
    => LET cells == callOut.cells
       IN /\ \A p \in PresentPositions :
               Cardinality({k \in 1..Len(cells) : cells[k].i = p[1] /\ cells[k].j = p[2]}) = 1
          /\ \A k \in 1..Len(cells) :
               /\ <<cells[k].i, cells[k].j>> \in PresentPositions
               /\ Some(cells[k].value) = callIn.grid[cells[k].i + 1][cells[k].j + 1]
          /\ \A k \in 1..(Len(cells) - 1) :
               \/ cells[k].i < cells[k + 1].i
               \/ (cells[k].i = cells[k + 1].i /\ cells[k].j < cells[k + 1].j)
          /\ Len(cells) <= Len(callIn.lats) * Len(callIn.lons)

\* A 2 x 2 grid whose only missing value is at row 0, column 1 gave the three
\* cells (0,0), (1,0), (1,1).
C11_Witness ==
  /\ callOut.fn = "cells"
  /\ Len(callIn.lats) = 2 /\ Len(callIn.lons) = 2
  /\ callIn.grid[1][2] = Null
  /\ callIn.grid[1][1] = Some(0)
  /\ Len(callOut.cells) = 3
  /\ [k \in 1..3 |-> <<callOut.cells[k].i, callOut.cells[k].j>>] = <<<<0, 0>>, <<1, 0>>, <<1, 1>>>>

\* ------------------------------------------------- claims: the range effect
\* The numbers the selected metric yields on the records that have its field:
\* the field itself, its absolute value for the precipitation change.
PresentOutputs ==
  LET list == callIn.cities.list
      m == callIn.metric
      raw == {list[k][m][1] : k \in {n \in 1..Len(list) : list[n][m] # Null}}
  IN {IF m = "delta_precip_pct" THEN (IF x < 0 THEN 0 - x ELSE x) ELSE x : x \in raw}

\* C12: when some record has a present value of the selected metric, the
\* range has min <= max, min and max are outputs of the accessor on records
\* of the collection, and they are the least and the greatest of them.
C12_RangeOfPresentValues ==
  (callOut.fn = "range" /\ callIn.cities.loaded /\ PresentOutputs # {})
    => /\ callOut.range.min <= callOut.range.max
       /\ callOut.range.min \in PresentOutputs
       /\ callOut.range.max \in PresentOutputs
       /\ \A v \in PresentOutputs : callOut.range.min <= v /\ v <= callOut.range.max

\* The precipitation change of two records, one of them missing it and the
\* other negative, gave the absolute value as both ends of the range.
C12_Witness ==
  /\ callOut.fn = "range"
  /\ callIn.metric = "delta_precip_pct"
  /\ Len(callIn.cities.list) = 2
  /\ callIn.cities.list[1]["delta_precip_pct"] = Null
  /\ callIn.cities.list[2]["delta_precip_pct"] = Some(-3)
  /\ callOut.range = [min |-> 3, max |-> 3]

\* ------------------------------------------------------- claims: the view
\* A grid position that one variable of the dataset has and another misses.
Misaligned(data) ==
  LET body == FileBody(data.rev)
  IN \E var \in VariableNames, other \in VariableNames :
       \E i \in 1..Len(body.lats), j \in 1..Len(body.lons) :
         body[var][i][j] # Null /\ body[other][i][j] = Null

\* C13: there is no fatal state: with a dataset loaded in which a position is
\* present in one variable and null in another, no sequence of variable
\* selections and hovers over emitted cells makes a render of the page throw.
C13_NoFatalState ==
  (climateData # NoData /\ Misaligned(climateData)) => ~crashed

\* The numbers a metric yields on the loaded cities that have its field.
OutputsOf(list, m) ==
  LET raw == {list[k][m][1] : k \in {n \in 1..Len(list) : list[n][m] # Null}}
  IN {IF m = "delta_precip_pct" THEN (IF x < 0 THEN 0 - x ELSE x) ELSE x : x \in raw}

Least(S) == CHOOSE x \in S : \A y \in S : x <= y
Greatest(S) == CHOOSE x \in S : \A y \in S : y <= x

\* The selected metric has a value on some loaded city, and the page renders.
MetricHasValues ==
  ~crashed /\ cities.loaded /\ OutputsOf(cities.list, bubbleMetric) # {}

\* C14: whenever the city layer was built and the selected metric has a present
\* value, the layer colours by the selected metric with the least and greatest
\* present value of that metric as min and max, never with the range the
\* previous metric or the first render left in bubbleRange.
C14_LayerUsesCurrentRange ==
  (MetricHasValues /\ layers.city.shown)
    => /\ layers.city.metric = bubbleMetric
       /\ layers.city.bMin = Least(OutputsOf(cities.list, bubbleMetric))
       /\ layers.city.bMax = Greatest(OutputsOf(cities.list, bubbleMetric))

\* The metric select went from the resilience score (40 to 60 on the loaded
\* cities) to the cost of living, and the rebuilt layer colours from 70 to 90.
C14_Witness ==
  /\ events >= 1
  /\ cities = Loaded(CityFile(1))
  /\ bubbleMetric = "cost-of-living-index"
  /\ layers.city.shown
  /\ layers.city.metric = "cost-of-living-index"
  /\ layers.city.bMin = 70
  /\ layers.city.bMax = 90

\* C15: in every rendered state with the cities loaded, the legend shows the
\* least and greatest present value of the selected metric as its two ends.
C15_LegendShowsCurrentRange ==
  MetricHasValues
    => /\ legend.shown
       /\ legend.metric = bubbleMetric
       /\ legend.min = ToFixed1(Least(OutputsOf(cities.list, bubbleMetric)))
       /\ legend.max = ToFixed1(Greatest(OutputsOf(cities.list, bubbleMetric)))

====
